---- MODULE Spec2Model ----
(***************************************************************************)
(* Model of the SCP:SL server binding registry (BindServer.py) and of the  *)
(* status query command (CXServerAPI.py).                                   *)
(*                                                                         *)
(* Text is modelled at character level: a string is a sequence of          *)
(* one-character strings, a file is its whole text (lines ended by "\n"),  *)
(* so that writing a record and loading it again are real conversions.     *)
(* Python's None is the empty sequence: every token the code handles comes *)
(* from str.split() and is therefore never the empty string, and the code  *)
(* only ever tests a port for truthiness.                                   *)
(***************************************************************************)
EXTENDS Integers, Sequences, FiniteSets, TLC

VARIABLES
    files,         \* save_dir: group id -> [exists, text] of "<group>.txt"
    last,          \* the management command handled last and its reply
    qpc,           \* where the query command stands: idle, loop, await, done
    qgroup,        \* group_openid of the query command
    server_infos,  \* the targets the query command read from the file
    qi,            \* position of the for loop in server_infos
    results,       \* the result lines collected so far
    requests,      \* the targets session.get was called for, in call order
    pending,       \* the targets whose request is open
    responses,     \* what the remote API answered, in answer order
    qreply,        \* the reply of the query command
    added,         \* history: per group, the bindings added and not removed since
    rin,           \* the arguments of a call of _parse_servers
    rout,          \* what that call returned or that it raised
    conc           \* two management commands in flight: the store they found
                   \* and, per command, its position, loaded records and reply

vars == <<files, last, qpc, qgroup, server_infos, qi, results, requests,
          pending, responses, qreply, added, rin, rout, conc>>

\* the variables only the specifications of single calls use
xvars == <<rin, rout, conc>>

qvars == <<qpc, qgroup, server_infos, qi, results, requests, pending,
           responses, qreply>>

\* ------------------------------------------------------------------ text

None == <<>>

Groups == {"g1", "g2"}

\* str.isspace() for the characters of the model
IsSpace(c) == c \in {" ", "\n"}

\* str.lower() on one character
LowerChar(c) ==
    CASE c = "A" -> "a"
      [] c = "C" -> "c"
      [] c = "R" -> "r"
      [] OTHER -> c

\* str.lower()
Lower(s) == [i \in 1..Len(s) |-> LowerChar(s[i])]

RECURSIVE LStrip(_)
LStrip(s) ==
    IF s = <<>> THEN <<>>
    ELSE IF IsSpace(Head(s)) THEN LStrip(Tail(s)) ELSE s

RECURSIVE RStrip(_)
RStrip(s) ==
    IF s = <<>> THEN <<>>
    ELSE IF IsSpace(s[Len(s)]) THEN RStrip(SubSeq(s, 1, Len(s) - 1)) ELSE s

\* str.strip()
Strip(s) == RStrip(LStrip(s))

RECURSIVE SplitFrom(_, _, _)
SplitFrom(s, cur, acc) ==
    IF s = <<>>
    THEN (IF cur = <<>> THEN acc ELSE Append(acc, cur))
    ELSE IF IsSpace(Head(s))
         THEN SplitFrom(Tail(s), <<>>, IF cur = <<>> THEN acc ELSE Append(acc, cur))
         ELSE SplitFrom(Tail(s), Append(cur, Head(s)), acc)

\* str.split() with no argument: the maximal runs of non-space characters
Split(s) == SplitFrom(s, <<>>, <<>>)

RECURSIVE Join(_, _)
\* sep.join(tokens)
Join(tokens, sep) ==
    IF tokens = <<>> THEN <<>>
    ELSE IF Len(tokens) = 1 THEN tokens[1]
    ELSE tokens[1] \o sep \o Join(Tail(tokens), sep)

RECURSIVE LinesFrom(_, _, _)
LinesFrom(text, cur, acc) ==
    IF text = <<>>
    THEN (IF cur = <<>> THEN acc ELSE Append(acc, cur))
    ELSE IF Head(text) = "\n"
         THEN LinesFrom(Tail(text), <<>>, Append(acc, Append(cur, "\n")))
         ELSE LinesFrom(Tail(text), Append(cur, Head(text)), acc)

\* "for line in f": the lines of a text file, each with its line end
FileLines(text) == LinesFrom(text, <<>>, <<>>)

RECURSIVE Concat(_)
\* the text of several writes to one file
Concat(ss) == IF ss = <<>> THEN <<>> ELSE Head(ss) \o Concat(Tail(ss))

\* ------------------------------------------------------------ the store

NoFile == [exists |-> FALSE, text |-> <<>>]

FileOf(text) == [exists |-> TRUE, text |-> text]

\* a loader that reads one file whatever the group is
_load_servers_any(fs, group_id) ==
    IF ~fs["g1"].exists THEN <<>>
    ELSE LET lines == FileLines(fs["g1"].text)
             stripped == [i \in 1..Len(lines) |-> Strip(lines[i])]
             kept == SelectSeq(stripped, LAMBDA line :
                         line # <<>> /\ Len(Split(line)) >= 2)
         IN [i \in 1..Len(kept) |-> Split(kept[i])]

\* BindServerPlugin._load_servers
_load_servers(fs, group_id) ==
    IF ~fs[group_id].exists THEN <<>>
    ELSE LET lines == FileLines(fs[group_id].text)
             stripped == [i \in 1..Len(lines) |-> Strip(lines[i])]
             kept == SelectSeq(stripped, LAMBDA line :
                         line # <<>> /\ Len(Split(line)) >= 2)
         IN [i \in 1..Len(kept) |-> Split(kept[i])]

\* a duplicate test that compares the whole stored tuple
RecordMatches_whole(record, server_key, account_id) ==
    record = <<server_key, account_id>>

\* the duplicate test of _add_server and _check_server
RecordMatches(record, server_key, account_id) ==
    record[1] = server_key /\ record[2] = account_id

\* a record line whose port is not set off by a blank
AddRecordText_nosep(server_key, account_id, port) ==
    server_key \o <<" ">> \o account_id
        \o (IF port # None THEN port ELSE <<>>) \o <<"\n">>

\* the line _add_server writes
AddRecordText(server_key, account_id, port) ==
    server_key \o <<" ">> \o account_id
        \o (IF port # None THEN <<" ">> \o port ELSE <<>>) \o <<"\n">>

\* an _add_server that writes the line before it looks for a duplicate
_add_server_early(fs, group_id, server_key, account_id, port) ==
    LET servers == _load_servers(fs, group_id)
        written == [fs EXCEPT ![group_id] =
                      FileOf(fs[group_id].text
                             \o AddRecordText(server_key, account_id, port))]
    IN IF \E i \in 1..Len(servers) : RecordMatches(servers[i], server_key, account_id)
       THEN [reply |-> "AlreadyExists", fs |-> written]
       ELSE [reply |-> "Added", fs |-> written]

\* an _add_server that opens the file with mode 'w'
_add_server_overwrite(fs, group_id, server_key, account_id, port) ==
    LET servers == _load_servers(fs, group_id) IN
    IF \E i \in 1..Len(servers) : RecordMatches(servers[i], server_key, account_id)
    THEN [reply |-> "AlreadyExists", fs |-> fs]
    ELSE [reply |-> "Added",
          fs |-> [fs EXCEPT ![group_id] =
                    FileOf(AddRecordText(server_key, account_id, port))]]

\* _add_server after "servers = await self._load_servers(group_id)"
AddLoaded(fs, servers, group_id, server_key, account_id, port) ==
    IF \E i \in 1..Len(servers) : RecordMatches(servers[i], server_key, account_id)
    THEN [reply |-> "AlreadyExists", fs |-> fs]
    ELSE [reply |-> "Added",
          fs |-> [fs EXCEPT ![group_id] =
                    FileOf(fs[group_id].text
                           \o AddRecordText(server_key, account_id, port))]]

\* BindServerPlugin._add_server: the reply and the files afterwards
_add_server(fs, group_id, server_key, account_id, port) ==
    AddLoaded(fs, _load_servers(fs, group_id), group_id, server_key, account_id, port)

\* a filter that matches the stored tuple as a whole, so never one with a port
RemoveFilter_whole(servers, server_key, account_id) ==
    SelectSeq(servers, LAMBDA r : r # <<server_key, account_id>>)

\* the list comprehension of _remove_server
RemoveFilter(servers, server_key, account_id) ==
    SelectSeq(servers, LAMBDA r : r[1] # server_key \/ r[2] # account_id)

\* _remove_server after "servers = await self._load_servers(group_id)"
RemoveLoaded(fs, servers, group_id, server_key, account_id) ==
    LET new_servers == RemoveFilter(servers, server_key, account_id)
    IN IF Len(new_servers) = Len(servers)
       THEN [reply |-> "NotFound", fs |-> fs]
       ELSE [reply |-> "Removed",
             fs |-> [fs EXCEPT ![group_id] =
                       FileOf(Concat([i \in 1..Len(new_servers) |->
                                 Join(new_servers[i], <<" ">>) \o <<"\n">>]))]]

\* BindServerPlugin._remove_server
_remove_server(fs, group_id, server_key, account_id) ==
    RemoveLoaded(fs, _load_servers(fs, group_id), group_id, server_key, account_id)

\* _check_server after "servers = await self._load_servers(group_id)"
CheckLoaded(fs, servers, group_id, server_key, account_id) ==
    IF \E i \in 1..Len(servers) : RecordMatches(servers[i], server_key, account_id)
    THEN [reply |-> "Exists", fs |-> fs]
    ELSE [reply |-> "NotExists", fs |-> fs]

\* BindServerPlugin._check_server
_check_server(fs, group_id, server_key, account_id) ==
    CheckLoaded(fs, _load_servers(fs, group_id), group_id, server_key, account_id)

\* a plugin whose _load_servers reads the file through an awaited I/O call
Awaits_aio(coroutine) ==
    CASE coroutine = "handle" -> {"_add_server", "_remove_server", "_check_server"}
      [] coroutine \in {"_add_server", "_remove_server", "_check_server"} ->
           {"_load_servers"}
      [] coroutine = "_load_servers" -> {"io"}
      [] OTHER -> {}

\* what each coroutine of the plugin awaits: handle awaits one of the three
\* operations, each of them awaits _load_servers, and _load_servers, which
\* reads the file with the blocking open(), awaits nothing
Awaits(coroutine) ==
    CASE coroutine = "handle" -> {"_add_server", "_remove_server", "_check_server"}
      [] coroutine \in {"_add_server", "_remove_server", "_check_server"} ->
           {"_load_servers"}
      [] OTHER -> {}

RECURSIVE Suspends(_)
\* awaiting this coroutine can give control back to the event loop: only an
\* awaited I/O operation does, awaiting a coroutine runs it at once
Suspends(coroutine) ==
    \/ "io" \in Awaits(coroutine)
    \/ \E inner \in Awaits(coroutine) \ {"io"} : Suspends(inner)

\* handle after the operation it called has loaded the records
HandleLoaded(fs, servers, params, group_openid) ==
    LET parts == Split(Strip(params))
        mode == Lower(parts[1])
    IN IF mode = <<"a", "d", "d">>
       THEN AddLoaded(fs, servers, group_openid, parts[2], parts[3],
                      IF Len(parts) >= 4 THEN parts[4] ELSE None)
       ELSE IF mode = <<"r", "e", "m", "o", "v", "e">>
       THEN RemoveLoaded(fs, servers, group_openid, parts[2], parts[3])
       ELSE CheckLoaded(fs, servers, group_openid, parts[2], parts[3])

\* an authorization that lets every user pass
is_admin_any(user_id) == TRUE

\* auth_manager.is_admin(user_id)
is_admin(user_id) == user_id = "admin"

\* the length test of the add branch of handle
AddArgsBad(parts) == Len(parts) < 3

\* BindServerPlugin.handle: the reply and the files afterwards
BindHandle(fs, params, user_id, group_openid) ==
    IF ~is_admin(user_id) THEN [reply |-> "Denied", fs |-> fs]
    ELSE LET parts == Split(Strip(params)) IN
         IF Len(parts) < 1 THEN [reply |-> "Usage", fs |-> fs]
         ELSE LET mode == Lower(parts[1]) IN
              IF mode = <<"a", "d", "d">>
              THEN IF AddArgsBad(parts)
                   THEN [reply |-> "AddFormat", fs |-> fs]
                   ELSE _add_server(fs, group_openid, parts[2], parts[3],
                                    IF Len(parts) >= 4 THEN parts[4] ELSE None)
              ELSE IF mode = <<"r", "e", "m", "o", "v", "e">>
              THEN IF Len(parts) # 3
                   THEN [reply |-> "RemoveFormat", fs |-> fs]
                   ELSE _remove_server(fs, group_openid, parts[2], parts[3])
              ELSE IF mode = <<"c", "h", "e", "c", "k">>
              THEN IF Len(parts) # 3
                   THEN [reply |-> "CheckFormat", fs |-> fs]
                   ELSE _check_server(fs, group_openid, parts[2], parts[3])
              ELSE [reply |-> "Usage", fs |-> fs]

\* --------------------------------------------------- management commands

\* the (serverKey, accountId) pairs the commands name: two share the key, two
\* share the account id
Identities == {<<<<"k">>, <<"a">>>>, <<<<"k">>, <<"b">>>>, <<<<"j">>, <<"a">>>>}

WordAdd == <<"A", "d", "d">>
WordRemove == <<"R", "e", "m", "o", "v", "e">>
WordCheck == <<"c", "h", "e", "c", "k">>
WordOther == <<"l", "i", "s", "t">>

\* the argument lists of well-formed Add commands
AddArgLists ==
    Identities
    \cup {Append(id, <<"7">>) : id \in Identities}
    \cup {<<<<"k">>, <<"a">>, <<"8">>>>}

\* the argument lists that do not fit a subcommand's grammar
OddArgLists == {<<>>, <<<<"k">>>>, <<<<"k">>, <<"a">>, <<"7">>, <<"x">>>>}

\* the parameter strings of the management command for the first group
ParamsFull ==
    {<<>>, <<" ">>}
    \cup {Join(<<WordAdd>> \o args, <<" ">>) : args \in AddArgLists \cup OddArgLists}
    \cup {Join(<<w>> \o args, <<" ">>) :
             w \in {WordRemove, WordCheck},
             args \in Identities \cup OddArgLists \cup {<<<<"k">>, <<"a">>, <<"7">>>>}}
    \cup {Join(<<WordOther>> \o args, <<" ">>) : args \in {<<>>, <<<<"k">>, <<"a">>>>}}
    \cup {<<" ">> \o Join(<<WordAdd, <<"j">>, <<"a">>>>, <<" ", " ">>) \o <<" ">>}

\* the parameter strings tried for the second group and for non-administrators
ParamsFew ==
    {Join(<<w, <<"k">>, <<"a">>>>, <<" ">>) : w \in {WordAdd, WordRemove, WordCheck}}
    \cup {Join(<<WordAdd, <<"k">>, <<"a">>, <<"7">>>>, <<" ">>)}

\* the commands issued: [params, user_id, group_openid]
Commands ==
    {[params |-> ps, user_id |-> "admin", group_openid |-> "g1"] : ps \in ParamsFull}
    \cup {[params |-> ps, user_id |-> "admin", group_openid |-> "g2"] : ps \in ParamsFew}
    \cup {[params |-> ps, user_id |-> "guest", group_openid |-> "g1"] : ps \in ParamsFew}

NoCommand == [params |-> <<>>, user_id |-> "guest", group_openid |-> "g1"]

\* ------------------------------------------------------ the query command

\* one entry of results: a failure line or a rendered server block
Line(kind, key, n, account, port) ==
    [kind |-> kind, key |-> key, n |-> n, account |-> account, port |-> port,
     name |-> [kind |-> "None", text |-> <<>>],
     id |-> [default |-> TRUE, text |-> <<>>],
     lastOnline |-> [default |-> TRUE, text |-> <<>>],
     version |-> [default |-> TRUE, text |-> <<>>],
     players |-> [default |-> TRUE, text |-> <<>>],
     flags |-> <<>>, roster |-> <<>>]

\* the tuple the query command builds from the tokens of one line
TargetOf(parts) ==
    <<parts[1], parts[2], IF Len(parts) >= 3 THEN parts[3] ELSE None>>

RECURSIVE Dedup_identity(_, _)
\* a reading loop that keeps one target per (key, account id)
Dedup_identity(infos, acc) ==
    IF infos = <<>> THEN acc
    ELSE IF \E i \in 1..Len(acc) :
                acc[i][1] = Head(infos)[1] /\ acc[i][2] = Head(infos)[2]
         THEN Dedup_identity(Tail(infos), acc)
         ELSE Dedup_identity(Tail(infos), Append(acc, Head(infos)))

RECURSIVE Dedup(_, _)
\* "if server_info not in server_infos: server_infos.append(server_info)"
Dedup(infos, acc) ==
    IF infos = <<>> THEN acc
    ELSE IF \E i \in 1..Len(acc) : acc[i] = Head(infos)
         THEN Dedup(Tail(infos), acc)
         ELSE Dedup(Tail(infos), Append(acc, Head(infos)))

\* the reading loop of QueryServerPlugin.handle
ReadServerInfos(text) ==
    LET lines == FileLines(text)
        stripped == [i \in 1..Len(lines) |-> Strip(lines[i])]
        kept == SelectSeq(stripped, LAMBDA line :
                    line # <<>> /\ Len(Split(line)) >= 2)
    IN Dedup([i \in 1..Len(kept) |-> TargetOf(Split(kept[i]))], <<>>)

\* a JSON number, a JSON string and a key the object does not have
JInt(n) == [t |-> "int", n |-> n, s |-> <<>>]
JStr(s) == [t |-> "str", n |-> 0, s |-> s]
JMissing == [t |-> "missing", n |-> 0, s |-> <<>>]

RECURSIVE Digits(_)
\* the decimal digits of a natural number
Digits(n) ==
    LET digit == <<"0", "1", "2", "3", "4", "5", "6", "7", "8", "9">>[(n % 10) + 1]
    IN IF n < 10 THEN <<digit>> ELSE Append(Digits(n \div 10), digit)

\* str(v) of a JSON number or string
PyStr(v) == IF v.t = "int" THEN Digits(v.n) ELSE v.s

\* str(server.get('Port', ''))
ServerPort(server) == IF server.Port.t = "missing" THEN <<>> ELSE PyStr(server.Port)

\* server.get(name, default) put into an f-string: the default or str(value)
Field(v) ==
    IF v.t = "missing" THEN [default |-> TRUE, text |-> <<>>]
    ELSE [default |-> FALSE, text |-> PyStr(v)]

NoField == [default |-> TRUE, text |-> <<>>]

\* the letters [a-z] matches under re.IGNORECASE
IsLetter(c) ==
    c \in {"a", "b", "c", "d", "e", "f", "g", "h", "i", "j", "k", "l", "m",
           "n", "o", "p", "q", "r", "s", "t", "u", "v", "w", "x", "y", "z",
           "A", "B", "C", "D", "E", "F", "G", "H", "I", "J", "K", "L", "M",
           "N", "O", "P", "Q", "R", "S", "T", "U", "V", "W", "X", "Y", "Z"}

\* the length of the match of <[^>]+> at the start of s, 0 when there is none
HtmlTagLen(s) ==
    IF Len(s) < 3 \/ s[1] # "<" \/ s[2] = ">" THEN 0
    ELSE LET ends == {j \in 3..Len(s) : s[j] = ">"} IN
         IF ends = {} THEN 0
         ELSE CHOOSE j \in ends : \A k \in ends : j <= k

\* the length of the match of \[\/?[a-z]+\] at the start of s, 0 when there is none
BBTagLen(s) ==
    IF s = <<>> \/ s[1] # "[" THEN 0
    ELSE LET from == IF Len(s) >= 2 /\ s[2] = "/" THEN 3 ELSE 2
             ends == {j \in (from + 1)..Len(s) :
                         /\ s[j] = "]"
                         /\ \A k \in from..(j - 1) : IsLetter(s[k])}
         IN IF ends = {} THEN 0 ELSE CHOOSE j \in ends : TRUE

RECURSIVE StripTags(_)
\* self.tag_regex.sub('', s)
StripTags(s) ==
    IF s = <<>> THEN <<>>
    ELSE LET n == IF HtmlTagLen(s) > 0 THEN HtmlTagLen(s) ELSE BBTagLen(s) IN
         IF n > 0 THEN StripTags(SubSeq(s, n + 1, Len(s)))
         ELSE <<Head(s)>> \o StripTags(Tail(s))

\* the Info field of a server entry: whether it is falsy (missing, "", 0),
\* whether base64.b64decode accepts it, and the text it decodes to
InfoValue(falsy, decodes, text) == [falsy |-> falsy, decodes |-> decodes, text |-> text]
InfoMissing == InfoValue(TRUE, FALSE, <<>>)

ServerName(kind, text) == [kind |-> kind, text |-> text]

\* QueryServerPlugin._extract_server_name
_extract_server_name(info_b64) ==
    IF info_b64.falsy THEN ServerName("Unknown", <<>>)
    ELSE IF ~info_b64.decodes THEN ServerName("ParseFailed", <<>>)
    ELSE ServerName("Name", Join(Split(StripTags(info_b64.text)), <<" ">>))

\* the flags list of one entry
Flags(server) ==
    (IF server.FF THEN <<"FF">> ELSE <<>>)
    \o (IF server.WL THEN <<"WL">> ELSE <<>>)
    \o (IF server.Modded THEN <<"Modded">> ELSE <<>>)

\* the number of players a roster lists
RosterLimit == 10

\* a roster that lists every player
Shown_all(players) == players

\* players[:10]
Shown(players) ==
    SubSeq(players, 1, IF Len(players) < RosterLimit THEN Len(players) ELSE RosterLimit)

RosterLine(kind, n, nickname) == [kind |-> kind, n |-> n, nickname |-> nickname]

\* a summary line after every roster
HasMore_always(players) == TRUE

\* "if len(players) > 10"
HasMore(players) == Len(players) > RosterLimit

\* the lines the block "if server.get('Online')" adds to one entry
Roster(server) ==
    IF ~server.Online THEN <<>>
    ELSE LET players == server.PlayersList IN
         IF players = <<>> THEN <<RosterLine("NoPlayers", 0, NoField)>>
         ELSE <<RosterLine("Header", 0, NoField)>>
              \o [j \in 1..Len(Shown(players)) |->
                     RosterLine("Player", j, Field(Shown(players)[j].nickname))]
              \o (IF HasMore(players)
                  THEN <<RosterLine("More", Len(players) - RosterLimit, NoField)>>
                  ELSE <<>>)

\* player.get raises AttributeError for a listed player that is not an object
RosterRaises(server) ==
    /\ server.Online
    /\ \E j \in 1..Len(Shown(server.PlayersList)) : ~Shown(server.PlayersList)[j].isDict

\* a filter that compares the Port field as it is, without str()
PortMatches_raw(server, port) ==
    port = None \/ (server.Port.t = "str" /\ server.Port.s = port)

\* the negation of "if port and server_port != port: continue"
PortMatches(server, port) == port = None \/ ServerPort(server) = port

\* the text block of entry i
Block(i, account_id, server) ==
    [kind |-> "Block", key |-> None, n |-> i, account |-> account_id,
     port |-> ServerPort(server),
     name |-> _extract_server_name(server.Info),
     id |-> Field(server.ID), lastOnline |-> Field(server.LastOnline),
     version |-> Field(server.Version), players |-> Field(server.Players),
     flags |-> Flags(server), roster |-> Roster(server)]

RECURSIVE RenderFrom(_, _, _, _)
\* the for loop of _parse_servers from entry i on
RenderFrom(servers, i, account_id, port) ==
    IF i > Len(servers) THEN <<>>
    ELSE LET server == servers[i]
             rest == RenderFrom(servers, i + 1, account_id, port)
         IN IF ~server.isDict THEN rest
            ELSE IF ~PortMatches(server, port) THEN rest
            ELSE <<Block(i, account_id, server)>> \o rest

\* a parser that does not look at Success
ApiSucceeded_any(data) == TRUE

\* data.get("Success", False) is truthy
ApiSucceeded(data) == data.Success

\* QueryServerPlugin._parse_servers raises: an entry it renders has a listed
\* player that is not an object
ParseRaises(data, port) ==
    /\ ApiSucceeded(data)
    /\ \E i \in 1..Len(data.Servers) :
           /\ data.Servers[i].isDict
           /\ PortMatches(data.Servers[i], port)
           /\ RosterRaises(data.Servers[i])

\* QueryServerPlugin._parse_servers, for data that is a JSON object, when it returns
_parse_servers(server_key, account_id, data, port) ==
    IF ~ApiSucceeded(data) THEN <<Line("ApiFailed", server_key, 0, None, None)>>
    ELSE IF data.Servers = <<>> THEN <<Line("NoData", server_key, 0, None, None)>>
    ELSE LET blocks == RenderFrom(data.Servers, 1, account_id, port) IN
         IF port # None /\ blocks = <<>>
         THEN <<Line("NoPortData", None, 0, None, port)>>
         ELSE blocks

\* the exception the body of the for loop raises for this answer, "None" when
\* it raises none
Raised(info, resp) ==
    CASE resp.kind = "Timeout" -> "TimeoutError"
      [] resp.kind = "ClientError" -> "ClientError"
      [] resp.kind = "Http" /\ resp.status = 200 /\ ~resp.json -> "JSONDecodeError"
      [] resp.kind = "Http" /\ resp.status = 200 /\ resp.json /\ ~resp.data.isDict ->
           "AttributeError"
      [] resp.kind = "Http" /\ resp.status = 200 /\ resp.json /\ resp.data.isDict
         /\ ParseRaises(resp.data, info[3]) -> "AttributeError"
      [] OTHER -> "None"

\* a loop whose last clause is "except aiohttp.ClientError"
Clause_narrow(exc) ==
    CASE exc = "JSONDecodeError" -> "FormatError"
      [] exc = "TimeoutError" -> "Timeout"
      [] exc = "ClientError" -> "Exception"
      [] OTHER -> "Outer"

\* the except clause that handles an exception raised in the loop body:
\* json.JSONDecodeError, asyncio.TimeoutError, then Exception
Clause(exc) ==
    CASE exc = "JSONDecodeError" -> "FormatError"
      [] exc = "TimeoutError" -> "Timeout"
      [] OTHER -> "Exception"

\* the body of the for loop of handle: what one target adds to results
TargetResult(info, resp) ==
    LET server_key == info[1]
        account_id == info[2]
        port == info[3]
    IN IF Raised(info, resp) # "None"
       THEN <<Line(Clause(Raised(info, resp)), server_key, 0, None, None)>>
       ELSE IF resp.status # 200
       THEN <<Line("HttpError", server_key, resp.status, None, None)>>
       ELSE _parse_servers(server_key, account_id, resp.data, port)

\* a query command that opens the file in a mode that creates it
QueryFiles_create(fs, group_openid) ==
    IF fs[group_openid].exists THEN fs
    ELSE [fs EXCEPT ![group_openid] = [exists |-> TRUE, text |-> <<>>]]

\* what the query command does to the files: it opens the file for reading only
QueryFiles(fs, group_openid) == fs

\* a loop that does not wait for the answer before it calls session.get again
MayRequest_eager(pc, open) == pc \in {"loop", "await"}

\* the for loop issues the request of the current target when none is open
MayRequest(pc, open) == pc = "loop"

\* leaving "async with session.get(...)" closes the request
Closed(open, i) == open \ {i}

\* a loop that a timeout leaves
AfterAnswer_abort(i, n, resp) == IF resp.kind = "Timeout" THEN n + 1 ELSE i + 1

\* the position of the for loop after target i of n was answered with resp:
\* every branch of the loop body ends the iteration, none leaves the loop
AfterAnswer(i, n, resp) == i + 1

\* results kept newest first
Collect_front(res, lines) == lines \o res

\* results.append / results.extend
Collect(res, lines) == res \o lines

\* a start without the test "if not server_infos"
QueryStart_noempty(fs, group_openid) ==
    IF ~fs[group_openid].exists
    THEN [reply |-> "NotBound", infos |-> <<>>]
    ELSE [reply |-> "None", infos |-> ReadServerInfos(fs[group_openid].text)]

\* lines 31-48 of handle: the reply that ends the command before any request
\* ("None" when the loop is entered) and the targets read
QueryStart(fs, group_openid) ==
    IF ~fs[group_openid].exists
    THEN [reply |-> "NotBound", infos |-> <<>>]
    ELSE LET infos == ReadServerInfos(fs[group_openid].text) IN
         IF infos = <<>>
         THEN [reply |-> "EmptyBinding", infos |-> <<>>]
         ELSE [reply |-> "None", infos |-> infos]

\* the last statement of handle
JoinResults(res) ==
    IF res # <<>> THEN [kind |-> "Report", sections |-> res]
    ELSE [kind |-> "AllFailed", sections |-> <<>>]

\* ------------------------------------------------------ the remote API

NoData == [isDict |-> FALSE, Success |-> FALSE, Servers |-> <<>>]

Response(kind, status, json, data) ==
    [kind |-> kind, status |-> status, json |-> json, data |-> data]

\* a player object with this nickname, and a PlayersList entry that is no object
Player(nickname) == [isDict |-> TRUE, nickname |-> nickname]
OtherPlayer == [isDict |-> FALSE, nickname |-> JMissing]

\* an entry of Servers that is a JSON object
Server(port, info, meta, flags, online, players) ==
    [isDict |-> TRUE, Port |-> port, Info |-> info,
     ID |-> meta, LastOnline |-> meta, Version |-> meta, Players |-> meta,
     FF |-> flags[1], WL |-> flags[2], Modded |-> flags[3],
     Online |-> online, PlayersList |-> players]

NoFlags == <<FALSE, FALSE, FALSE>>

\* an object entry that has the Port field only
ServerEntry(port) == Server(port, InfoMissing, JMissing, NoFlags, FALSE, <<>>)

\* an entry of Servers that is no JSON object
OtherEntry ==
    [isDict |-> FALSE, Port |-> JMissing, Info |-> InfoMissing,
     ID |-> JMissing, LastOnline |-> JMissing, Version |-> JMissing,
     Players |-> JMissing, FF |-> FALSE, WL |-> FALSE, Modded |-> FALSE,
     Online |-> FALSE, PlayersList |-> <<>>]

Object(success, servers) == [isDict |-> TRUE, Success |-> success, Servers |-> servers]

\* an online entry of port 7 whose second player is no object
BrokenRoster ==
    Server(JInt(7), InfoMissing, JMissing, NoFlags, TRUE,
           <<Player(JStr(<<"p">>)), OtherPlayer>>)

\* an online entry of port 8 whose Info base64 does not decode and whose
\* player has no nickname
BrokenFields ==
    Server(JInt(8), InfoValue(FALSE, FALSE, <<>>), JMissing, NoFlags, TRUE,
           <<Player(JMissing)>>)

\* the answers the remote API is taken to give
Responses ==
    {Response("Timeout", 0, FALSE, NoData),
     Response("ClientError", 0, FALSE, NoData),
     Response("Http", 500, FALSE, NoData),
     Response("Http", 200, FALSE, NoData),
     Response("Http", 200, TRUE, NoData),
     Response("Http", 200, TRUE, Object(FALSE, <<ServerEntry(JInt(7))>>)),
     Response("Http", 200, TRUE, Object(TRUE, <<>>)),
     Response("Http", 200, TRUE, Object(TRUE, <<OtherEntry>>)),
     Response("Http", 200, TRUE, Object(TRUE, <<ServerEntry(JInt(7))>>)),
     Response("Http", 200, TRUE, Object(TRUE, <<ServerEntry(JInt(8)), OtherEntry,
                                               ServerEntry(JStr(<<"7">>))>>)),
     Response("Http", 200, TRUE, Object(TRUE, <<BrokenRoster>>)),
     Response("Http", 200, TRUE, Object(TRUE, <<BrokenFields>>))}

\* ------------------------------------------------------------ behaviour

NoReply == [kind |-> "None", sections |-> <<>>]

QueryIdle ==
    /\ qpc = "idle"
    /\ qgroup = "g1"
    /\ server_infos = <<>>
    /\ qi = 0
    /\ results = <<>>
    /\ requests = <<>>
    /\ pending = {}
    /\ responses = <<>>
    /\ qreply = NoReply

\* the binding a successful Add command wrote: (key, account id, port or None)
BindingOf(parts) == <<parts[2], parts[3], IF Len(parts) >= 4 THEN parts[4] ELSE None>>

NoRenderInput == [server_key |-> <<>>, account_id |-> <<>>, data |-> NoData, port |-> None]
NoRender == [done |-> FALSE, raised |-> FALSE, lines |-> <<>>]
NoTask == [cmd |-> NoCommand, pc |-> "done", servers |-> <<>>, reply |-> "None"]
NoTasks == [store |-> [g \in Groups |-> NoFile], task |-> <<NoTask, NoTask>>]

\* no single call is under way
NoCalls == rin = NoRenderInput /\ rout = NoRender /\ conc = NoTasks

\* one management command c, handled from start to end
HandleCommand(c) ==
    LET r == BindHandle(files, c.params, c.user_id, c.group_openid)
        parts == Split(Strip(c.params))
        g == c.group_openid
    IN /\ files' = r.fs
       /\ last' = [cmd |-> c, reply |-> r.reply]
       /\ added' = CASE r.reply = "Added" ->
                          [added EXCEPT ![g] = Append(@, BindingOf(parts))]
                     [] r.reply = "Removed" ->
                          [added EXCEPT ![g] = SelectSeq(@, LAMBDA b :
                               ~(b[1] = parts[2] /\ b[2] = parts[3]))]
                     [] OTHER -> added
       /\ UNCHANGED <<qvars, xvars>>

Init ==
    /\ files = [g \in Groups |-> NoFile]
    /\ last = [cmd |-> NoCommand, reply |-> "None"]
    /\ added = [g \in Groups |-> <<>>]
    /\ QueryIdle
    /\ NoCalls

Handle == \E c \in Commands : HandleCommand(c)

Next == Handle

Spec == Init /\ [][Next]_vars

\* the query command up to its first request: lines 31-50
QStart ==
    \E g \in Groups :
        LET start == QueryStart(files, g) IN
        /\ qpc = "idle"
        /\ qgroup' = g
        /\ files' = QueryFiles(files, g)
        /\ IF start.reply # "None"
           THEN /\ qpc' = "done"
                /\ qreply' = [kind |-> start.reply, sections |-> <<>>]
                /\ UNCHANGED <<server_infos, qi>>
           ELSE /\ qpc' = "loop"
                /\ server_infos' = start.infos
                /\ qi' = 1
                /\ UNCHANGED qreply
        /\ UNCHANGED <<last, results, requests, pending, responses, added, xvars>>

\* session.get for the current target: line 65
QRequest ==
    /\ MayRequest(qpc, pending)
    /\ qi <= Len(server_infos)
    /\ requests' = Append(requests, qi)
    /\ pending' = pending \cup {qi}
    /\ qpc' = "await"
    /\ UNCHANGED <<files, last, qgroup, server_infos, qi, results, responses,
                   qreply, added, xvars>>

\* the request of the current target ends and its result is recorded: lines 65-82;
\* an exception no clause of the loop handles ends the command at lines 86-88
QAnswer ==
    \E resp \in Responses :
        LET exc == Raised(server_infos[qi], resp) IN
        /\ qpc = "await"
        /\ responses' = Append(responses, resp)
        /\ pending' = Closed(pending, qi)
        /\ IF exc # "None" /\ Clause(exc) = "Outer"
           THEN /\ qreply' = [kind |-> "SystemError", sections |-> <<>>]
                /\ qpc' = "done"
                /\ UNCHANGED <<results, qi>>
           ELSE /\ results' = Collect(results, TargetResult(server_infos[qi], resp))
                /\ qi' = AfterAnswer(qi, Len(server_infos), resp)
                /\ qpc' = "loop"
                /\ UNCHANGED qreply
        /\ UNCHANGED <<files, last, qgroup, server_infos, requests, added, xvars>>

\* the loop is over and the reply is built: line 84
QReturn ==
    /\ qpc = "loop"
    /\ qi > Len(server_infos)
    /\ qreply' = JoinResults(results)
    /\ qpc' = "done"
    /\ UNCHANGED <<files, last, qgroup, server_infos, qi, results, requests,
                   pending, responses, added, xvars>>

\* the reply is delivered; the plugin is ready for the next query command
QAgain ==
    /\ qpc = "done"
    /\ qpc' = "idle"
    /\ qgroup' = "g1"
    /\ server_infos' = <<>>
    /\ qi' = 0
    /\ results' = <<>>
    /\ requests' = <<>>
    /\ pending' = {}
    /\ responses' = <<>>
    /\ qreply' = NoReply
    /\ UNCHANGED <<files, last, added, xvars>>

\* the text of a file with these lines, each a list of tokens
TextOf(lines) ==
    Concat([i \in 1..Len(lines) |-> Join(lines[i], <<" ">>) \o <<"\n">>])

\* the files a query command may find: none, one emptied by Remove, files as
\* Add wrote them, and files edited by hand (a lone token, a blank line,
\* repeated lines, no line end after the last line)
StoredFiles ==
    {NoFile,
     FileOf(<<>>),
     FileOf(<<"x", "\n", "\n", " ", "\n">>),
     FileOf(TextOf(<<<<<<"k">>, <<"a">>>>>>)),
     FileOf(TextOf(<<<<<<"k">>, <<"a">>, <<"7">>>>, <<<<"j">>, <<"a">>>>,
                     <<<<"k">>, <<"a">>, <<"8">>>>, <<<<"k">>, <<"a">>, <<"7">>>>>>)),
     FileOf(TextOf(<<<<<<"k">>, <<"a">>>>, <<<<"j">>, <<"a">>, <<"7">>>>, <<<<"k">>>>>>)
            \o <<" ", "k", " ", " ", "b">>)}

\* the management commands handled while a query command waits for an answer
CommandsMeanwhile ==
    {[params |-> Join(<<WordRemove, <<"k">>, <<"a">>>>, <<" ">>),
      user_id |-> "admin", group_openid |-> "g1"],
     [params |-> Join(<<WordAdd, <<"k">>, <<"b">>, <<"8">>>>, <<" ">>),
      user_id |-> "admin", group_openid |-> "g1"]}

\* a management command handled between two steps of the query command
HandleMeanwhile ==
    \E c \in CommandsMeanwhile : qpc = "await" /\ HandleCommand(c)

\* the store as a query command or a management command may find it
InitStored ==
    /\ \E f \in StoredFiles : files = [g \in Groups |-> IF g = "g1" THEN f ELSE NoFile]
    /\ last = [cmd |-> NoCommand, reply |-> "None"]
    /\ added = [g \in Groups |-> <<>>]
    /\ QueryIdle
    /\ NoCalls

InitQ == InitStored

NextQ == QStart \/ QRequest \/ QAnswer \/ QReturn \/ QAgain \/ HandleMeanwhile

SpecQ == InitQ /\ [][NextQ]_vars

\* the event loop runs every step of a started handler, and the session's
\* timeout ends every request that is not answered
SpecQLive ==
    SpecQ /\ WF_vars(QRequest) /\ WF_vars(QAnswer) /\ WF_vars(QReturn)

\* the management commands tried on a store that may have been edited by hand
CommandsStored ==
    {[params |-> Join(<<w>> \o args, <<" ">>), user_id |-> "admin", group_openid |-> "g1"] :
        w \in {WordRemove, WordCheck}, args \in Identities \cup {<<<<"k">>>>}}
    \cup {[params |-> Join(<<WordAdd>> \o args, <<" ">>), user_id |-> "admin",
           group_openid |-> "g1"] :
           args \in {<<<<"k">>, <<"a">>, <<"8">>>>, <<<<"j">>, <<"a">>, <<"7">>>>,
                     <<<<"k">>, <<"b">>>>}}

\* management commands on a store that may have been edited by hand
HandleStored == \E c \in CommandsStored : HandleCommand(c)

NextE == HandleStored

SpecE == InitStored /\ [][NextE]_vars

\* ----------------------------------------------- one call of _parse_servers

\* the longest PlayersList tried
MaxPlayers == 11

\* n player objects with distinct nicknames
PlayerList(n) == [j \in 1..n |-> Player(JStr(Digits(j)))]

\* the Port fields tried: numbers, a string, and no field
PortValues == {JInt(7), JInt(8), JStr(<<"7">>), JMissing}

\* object entries of every port, online or not, with every roster length
RosterEntries ==
    {Server(p, InfoMissing, JMissing, NoFlags, online, PlayerList(n)) :
        p \in PortValues, online \in BOOLEAN, n \in 0..MaxPlayers}

\* a name with tags and spaces, "<b>ab</b>  [i]c[/i] "
TaggedName ==
    <<"<", "b", ">", "a", "b", "<", "/", "b", ">", " ", " ",
      "[", "i", "]", "c", "[", "/", "i", "]", " ">>

\* entries that are no objects or have fields of unexpected content; a player
\* that is no object as the eleventh and as the tenth of the list
OddEntries ==
    {OtherEntry, BrokenRoster, BrokenFields,
     Server(JInt(7), InfoValue(FALSE, TRUE, TaggedName), JInt(3), <<TRUE, FALSE, TRUE>>,
            TRUE, Append(PlayerList(RosterLimit), OtherPlayer)),
     Server(JInt(7), InfoMissing, JMissing, NoFlags,
            TRUE, Append(PlayerList(RosterLimit - 1), OtherPlayer))}

\* the entries tried in lists of two
PairEntries ==
    {ServerEntry(JInt(7)), ServerEntry(JInt(8)), ServerEntry(JStr(<<"7">>)), OtherEntry,
     Server(JInt(7), InfoMissing, JMissing, NoFlags, TRUE, PlayerList(2))}

ServerLists ==
    {<<>>} \cup {<<e>> : e \in RosterEntries \cup OddEntries}
    \cup {<<e1, e2>> : e1 \in PairEntries, e2 \in PairEntries}

\* the calls of _parse_servers tried
RenderInputs ==
    {[server_key |-> <<"k">>, account_id |-> <<"a">>, data |-> Object(s, l), port |-> p] :
        s \in BOOLEAN, l \in ServerLists, p \in {None, <<"7">>, <<"8">>}}

InitR ==
    /\ files = [g \in Groups |-> NoFile]
    /\ last = [cmd |-> NoCommand, reply |-> "None"]
    /\ added = [g \in Groups |-> <<>>]
    /\ QueryIdle
    /\ rin \in RenderInputs
    /\ rout = NoRender
    /\ conc = NoTasks

\* the call self._parse_servers(server_key, account_id, data, port)
Render ==
    /\ ~rout.done
    /\ rout' = IF ParseRaises(rin.data, rin.port)
               THEN [done |-> TRUE, raised |-> TRUE, lines |-> <<>>]
               ELSE [done |-> TRUE, raised |-> FALSE,
                     lines |-> _parse_servers(rin.server_key, rin.account_id,
                                              rin.data, rin.port)]
    /\ UNCHANGED <<files, last, added, qvars, rin, conc>>

NextR == Render

SpecR == InitR /\ [][NextR]_vars

\* ------------------------------------- two management commands in flight

\* the commands that are in flight together, all for one group
CommandsInFlight ==
    {[params |-> Join(<<w>> \o args, <<" ">>), user_id |-> "admin", group_openid |-> "g1"] :
        w \in {WordAdd, WordRemove, WordCheck}, args \in {<<<<"k">>, <<"a">>>>}}
    \cup {[params |-> Join(<<WordAdd>> \o args, <<" ">>), user_id |-> "admin",
           group_openid |-> "g1"] :
           args \in {<<<<"k">>, <<"a">>, <<"7">>>>, <<<<"k">>, <<"b">>>>}}
    \cup {[params |-> Join(<<WordRemove, <<"j">>, <<"a">>>>, <<" ">>), user_id |-> "admin",
           group_openid |-> "g1"]}

\* the stores the two commands find, as earlier Adds left them
StoresInFlight ==
    {NoFile,
     FileOf(TextOf(<<<<<<"k">>, <<"a">>>>>>)),
     FileOf(TextOf(<<<<<<"k">>, <<"a">>, <<"7">>>>, <<<<"j">>, <<"a">>>>>>))}

\* the command reaches one of the three operations, which load the records
ReachesLoad(c) ==
    BindHandle(files, c.params, c.user_id, c.group_openid).reply
        \notin {"Denied", "Usage", "AddFormat", "RemoveFormat", "CheckFormat"}

InitC ==
    /\ \E f \in StoresInFlight : files = [g \in Groups |-> IF g = "g1" THEN f ELSE NoFile]
    /\ last = [cmd |-> NoCommand, reply |-> "None"]
    /\ added = [g \in Groups |-> <<>>]
    /\ QueryIdle
    /\ rin = NoRenderInput
    /\ rout = NoRender
    /\ \E c1 \in CommandsInFlight, c2 \in CommandsInFlight :
          conc = [store |-> files,
                  task |-> <<[cmd |-> c1, pc |-> "received", servers |-> <<>>,
                              reply |-> "None"],
                             [cmd |-> c2, pc |-> "received", servers |-> <<>>,
                              reply |-> "None"]>>]

\* the event loop runs the handler of command i until it gives control back:
\* at an await that suspends, or at its return
RunTask(i) ==
    LET t == conc.task[i]
        c == t.cmd
    IN /\ t.pc # "done"
       /\ IF t.pc = "received" /\ ReachesLoad(c) /\ Suspends("handle")
          THEN /\ conc' = [conc EXCEPT !.task[i].pc = "loaded",
                                       !.task[i].servers =
                                           _load_servers(files, c.group_openid)]
               /\ UNCHANGED files
          ELSE LET r == IF t.pc = "received"
                        THEN BindHandle(files, c.params, c.user_id, c.group_openid)
                        ELSE HandleLoaded(files, t.servers, c.params, c.group_openid)
               IN /\ files' = r.fs
                  /\ conc' = [conc EXCEPT !.task[i].pc = "done",
                                          !.task[i].reply = r.reply]
       /\ UNCHANGED <<last, added, qvars, rin, rout>>

Run == \E i \in {1, 2} : RunTask(i)

NextC == Run

SpecC == InitC /\ [][NextC]_vars

\* ---------------------------------------------------------------- claims

\* the tokens of a management command
CmdParts(c) == Split(Strip(c.params))

\* the command is a well-formed subcommand word of an administrator
IsCommand(c, word, lens) ==
    /\ c.user_id = "admin"
    /\ Len(CmdParts(c)) \in lens
    /\ Lower(CmdParts(c)[1]) = word

\* the group's collection holds a record of this identity key
Holds(fs, g, key, account) ==
    \E i \in 1..Len(_load_servers(fs, g)) :
        /\ _load_servers(fs, g)[i][1] = key
        /\ _load_servers(fs, g)[i][2] = account

\* C1: from an unbound registry, whatever Add, Remove and Check commands were
\* handled, no two records of one group's collection share (serverKey, accountId)
C1_NoDuplicateIdentity ==
    \A g \in Groups :
        LET servers == _load_servers(files, g) IN
        \A i, j \in 1..Len(servers) :
            (servers[i][1] = servers[j][1] /\ servers[i][2] = servers[j][2]) => i = j

\* a second Add of a stored identity was refused in a group of three records
C1_Witness ==
    /\ last.reply = "AlreadyExists"
    /\ Len(_load_servers(files, "g1")) = 3

\* C2: an Add command naming an identity the group's collection holds, whatever
\* port is stored and whatever port is passed, replies AlreadyExists and leaves
\* every file as it was
C2_AddExistingWritesNothing ==
    [][LET c == last'.cmd IN
       (/\ IsCommand(c, <<"a", "d", "d">>, {3, 4})
        /\ Holds(files, c.group_openid, CmdParts(c)[2], CmdParts(c)[3]))
       => (last'.reply = "AlreadyExists" /\ files' = files)]_vars

\* an Add with port 8 was refused while the stored record of the identity has port 7
C2_Witness ==
    /\ last.reply = "AlreadyExists"
    /\ CmdParts(last.cmd) = <<WordAdd, <<"k">>, <<"a">>, <<"8">>>>
    /\ \E i \in 1..Len(_load_servers(files, "g1")) :
           _load_servers(files, "g1")[i] = <<<<"k">>, <<"a">>, <<"7">>>>

\* C3: a Remove command deletes every record of the identity, whatever port it
\* stores, keeps the other records as they were and in their order, replies
\* Removed and makes Check answer no; when no record matches it replies NotFound
\* and leaves every file as it was
C3_RemoveAllMatching ==
    [][LET c == last'.cmd
           g == c.group_openid
           before == _load_servers(files, g)
           after == _load_servers(files', g)
           kept == SelectSeq(before, LAMBDA r :
                       ~(r[1] = CmdParts(c)[2] /\ r[2] = CmdParts(c)[3]))
       IN IsCommand(c, <<"r", "e", "m", "o", "v", "e">>, {3})
          => IF Len(kept) < Len(before)
             THEN /\ last'.reply = "Removed"
                  /\ after = kept
                  /\ _check_server(files', g, CmdParts(c)[2], CmdParts(c)[3]).reply
                        = "NotExists"
             ELSE /\ last'.reply = "NotFound"
                  /\ files' = files]_vars

\* Remove k a took the three records of (k, a), with ports 7, 8 and 7, out of
\* the hand-edited file and left the record in between
C3_Witness ==
    /\ last.reply = "Removed"
    /\ CmdParts(last.cmd) = <<WordRemove, <<"k">>, <<"a">>>>
    /\ _load_servers(files, "g1") = <<<<<<"j">>, <<"a">>>>>>
    /\ added["g1"] = <<>>

\* the stored tuple of a binding: two fields, or three when it has a port
TupleOf(b) == IF b[3] = None THEN <<b[1], b[2]>> ELSE b

\* C8: loading a group's collection returns exactly the records the successful
\* Adds wrote (less those removed since), with the key, account id and port or
\* absent port as written, in insertion order; an unbound group loads as the
\* empty sequence
C8_RoundTrip ==
    \A g \in Groups :
        /\ _load_servers(files, g) = [i \in 1..Len(added[g]) |-> TupleOf(added[g][i])]
        /\ ~files[g].exists => _load_servers(files, g) = <<>>

\* three Adds to the first group, with and without a port, and none to the second
C8_Witness ==
    /\ Len(added["g1"]) = 3
    /\ \E i, j \in 1..3 : added["g1"][i][3] = None /\ added["g1"][j][3] # None
    /\ ~files["g2"].exists

\* C10: a management command of an administrator whose argument count does not
\* fit its subcommand (add: 2 or 3 arguments, remove and check: 2), or whose
\* subcommand is unknown or missing, replies with the usage or format text and
\* leaves every file as it was
C10_NonConformingRejected ==
    [][LET c == last'.cmd
           parts == CmdParts(c)
           conforming ==
               /\ Len(parts) >= 1
               /\ \/ Lower(parts[1]) = <<"a", "d", "d">> /\ Len(parts) \in {3, 4}
                  \/ Lower(parts[1]) = <<"r", "e", "m", "o", "v", "e">> /\ Len(parts) = 3
                  \/ Lower(parts[1]) = <<"c", "h", "e", "c", "k">> /\ Len(parts) = 3
       IN (c.user_id = "admin" /\ ~conforming)
          => /\ last'.reply \in {"Usage", "AddFormat", "RemoveFormat", "CheckFormat"}
             /\ files' = files]_vars

\* the query command went through its loop and built its reply from results
LoopDone == qpc = "done" /\ qreply.kind \in {"Report", "AllFailed"}

\* C4 as stated: the request of a later target does not wait for an earlier
\* target's request to end, so once a request has been answered the requests
\* of all later targets have been issued
C4_Concurrent ==
    \A i, j \in 1..Len(server_infos) :
        (i < j /\ Len(responses) >= i) => \E r \in 1..Len(requests) : requests[r] = j

\* C4 amended: the requests are issued one at a time in enumeration order, each
\* only after the requests of all earlier targets have ended, so at most one is
\* open; a failure or timeout delays the later requests and cancels none of them
C4_OneAtATime ==
    /\ Cardinality(pending) <= 1
    /\ \A r \in 1..Len(requests) : requests[r] = r
    /\ Len(requests) <= Len(responses) + 1
    /\ LoopDone => Len(requests) = Len(server_infos)

\* the first request timed out and only then was the second issued
C4_Witness ==
    /\ qpc = "await"
    /\ Len(server_infos) >= 2
    /\ requests = <<1, 2>>
    /\ responses = <<Response("Timeout", 0, FALSE, NoData)>>

\* the line a failed request leaves in results
FailureLine(info, resp) ==
    CASE resp.kind = "Timeout" -> <<Line("Timeout", info[1], 0, None, None)>>
      [] resp.kind = "ClientError" -> <<Line("Exception", info[1], 0, None, None)>>
      [] resp.kind = "Http" /\ resp.status # 200 ->
           <<Line("HttpError", info[1], resp.status, None, None)>>
      [] resp.kind = "Http" /\ resp.status = 200 /\ ~resp.json ->
           <<Line("FormatError", info[1], 0, None, None)>>
      [] OTHER -> <<Line("Exception", info[1], 0, None, None)>>

\* the request ended with a decoded JSON object
Succeeded(resp) ==
    resp.kind = "Http" /\ resp.status = 200 /\ resp.json /\ resp.data.isDict

\* the section of target i: a function of the target and its own answer alone
\* (an answer whose rendering raises counts as a failed request)
SectionOf(i) ==
    IF Succeeded(responses[i])
       /\ ~ParseRaises(responses[i].data, server_infos[i][3])
    THEN _parse_servers(server_infos[i][1], server_infos[i][2], responses[i].data,
                        server_infos[i][3])
    ELSE FailureLine(server_infos[i], responses[i])

\* the sections of all targets, in enumeration order
AllSections == Concat([i \in 1..Len(server_infos) |-> SectionOf(i)])

\* C5 as stated: the output holds a section for every one of the N targets, in
\* enumeration order, each decided by the target's own outcome
C5_EveryTargetHasSection ==
    LoopDone =>
        /\ Len(responses) = Len(server_infos)
        /\ qreply.sections = AllSections
        /\ \A i \in 1..Len(server_infos) : SectionOf(i) # <<>>

\* C5 amended: the output is the sections of the targets in enumeration order,
\* each decided by the target's own outcome: one line for a failed request, the
\* rendered blocks for a decoded answer, which are none when no entry of Servers
\* is rendered; when every section is empty the reply is the all-failed text
C5_SectionsInOrder ==
    LoopDone =>
        /\ Len(responses) = Len(server_infos)
        /\ qreply.sections = AllSections
        /\ \A i \in 1..Len(server_infos) :
              ~Succeeded(responses[i]) => Len(SectionOf(i)) = 1
        /\ (qreply.kind = "AllFailed") = (AllSections = <<>>)

\* three targets: the first timed out, the second got HTTP 500, the third a
\* server block
C5_Witness ==
    /\ LoopDone
    /\ Len(server_infos) = 3
    /\ responses[1].kind = "Timeout"
    /\ responses[2].status = 500
    /\ Len(qreply.sections) = 3
    /\ qreply.sections[3].kind = "Block"

\* the number of requests issued for target j
Attempts(j) == Cardinality({r \in 1..Len(requests) : requests[r] = j})

\* no target has had more than one request, and after the loop each has had one
AttemptedOnce ==
    \A j \in 1..Len(server_infos) :
        /\ Attempts(j) <= 1
        /\ LoopDone => Attempts(j) = 1

\* C6: every target's remote call is attempted exactly once: none is retried,
\* none is skipped after a timeout or failure of an earlier one, and a command
\* that entered its loop ends with one attempt made for every target
C6_ExactlyOnce ==
    /\ []AttemptedOnce
    /\ (qpc \in {"loop", "await"}) ~> LoopDone

\* the command ended after a timeout and a failed request on its first targets
C6_Witness ==
    /\ LoopDone
    /\ Len(server_infos) = 3
    /\ responses[1].kind = "Timeout"
    /\ responses[2].kind = "ClientError"
    /\ \A j \in 1..3 : Attempts(j) = 1

\* C7: no step of the query command changes a file of the record store, whatever
\* the remote requests answer
C7_QueryLeavesStore ==
    [][qvars' # qvars => files' = files]_vars

\* a query command of three requests, one of them timed out, has ended and the
\* file it read is as it was found
C7_Witness ==
    /\ LoopDone
    /\ Len(responses) = 3
    /\ responses[2].kind = "Timeout"
    /\ last.reply = "None"
    /\ files[qgroup] \in StoredFiles

\* C9: a query command for a group of zero bindings ends at once with the
\* not-bound or the empty text and with no request issued
C9_NoBindingsNoRequest ==
    [][(qpc = "idle" /\ qpc' # "idle" /\ _load_servers(files, qgroup') = <<>>)
       => /\ qpc' = "done"
          /\ qreply'.kind \in {"NotBound", "EmptyBinding"}
          /\ requests' = <<>>
          /\ pending' = {}]_vars

\* the file of the group holds text and no binding, and the command ended with
\* the empty text and no request
C9_Witness ==
    /\ qpc = "done"
    /\ qreply.kind = "EmptyBinding"
    /\ files[qgroup].text # <<>>
    /\ _load_servers(files, qgroup) = <<>>
    /\ requests = <<>>

\* the answer of target i is a decoded JSON object
Decoded(i) ==
    /\ responses[i].kind = "Http" /\ responses[i].status = 200
    /\ responses[i].json /\ responses[i].data.isDict

\* entry e of the answer of target i is rendered: Success is truthy, the entry
\* is an object and passes the target's port filter
Rendered(i, e) ==
    /\ Decoded(i) /\ responses[i].data.Success
    /\ e \in 1..Len(responses[i].data.Servers)
    /\ responses[i].data.Servers[e].isDict
    /\ server_infos[i][3] \in {None, ServerPort(responses[i].data.Servers[e])}

\* a rendered entry of the answer of target i lists a player that is no object
BadPlayer(i) ==
    \E e \in 1..Len(responses[i].data.Servers) :
        /\ Rendered(i, e)
        /\ responses[i].data.Servers[e].Online
        /\ \E j \in 1..Len(responses[i].data.Servers[e].PlayersList) :
               j <= RosterLimit /\ ~responses[i].data.Servers[e].PlayersList[j].isDict

\* line l is among the results
InResults(l) == \E k \in 1..Len(results) : results[k] = l

Returned == rout.done /\ ~rout.raised

\* the positions in Servers of the object entries
ObjectEntries == {e \in 1..Len(rin.data.Servers) : rin.data.Servers[e].isDict}

\* the positions of the object entries whose port, as str() gives it, is port
EntriesOfPort(port) ==
    {e \in ObjectEntries :
        LET v == rin.data.Servers[e].Port
        IN port = (IF v.t = "int" THEN Digits(v.n) ELSE v.s)}

\* the positions of the entries the returned blocks were made for, in order
BlockEntries == [k \in 1..Len(rout.lines) |-> rout.lines[k].n]

\* sequence s lists set S in ascending order
Ascending(s, S) ==
    /\ {s[k] : k \in 1..Len(s)} = S
    /\ \A k \in 1..(Len(s) - 1) : s[k] < s[k + 1]

\* C12: for a successful answer with a non-empty Servers list, with a port filter
\* the blocks are exactly those of the object entries whose port, converted
\* with str, equals the filter, in list order; if the filter matches no entry
\* the result is the single no-data-for-this-port line; without a filter the
\* blocks are those of all object entries
C12_PortFilter ==
    (Returned /\ rin.data.Success /\ rin.data.Servers # <<>>) =>
        IF rin.port = None
        THEN /\ \A k \in 1..Len(rout.lines) : rout.lines[k].kind = "Block"
             /\ Ascending(BlockEntries, ObjectEntries)
        ELSE IF EntriesOfPort(rin.port) = {}
        THEN rout.lines = <<Line("NoPortData", None, 0, None, rin.port)>>
        ELSE /\ \A k \in 1..Len(rout.lines) :
                    rout.lines[k].kind = "Block" /\ rout.lines[k].port = rin.port
             /\ Ascending(BlockEntries, EntriesOfPort(rin.port))

\* the filter "7" kept the entry whose Port is the number 7 and dropped the
\* entry of port 8
C12_Witness ==
    /\ Returned
    /\ rin.port = <<"7">>
    /\ rin.data = Object(TRUE, <<ServerEntry(JInt(8)), ServerEntry(JInt(7))>>)
    /\ BlockEntries = <<2>>

\* the filter "8" matched no entry of a list of two
C12_WitnessNoMatch ==
    /\ Returned
    /\ rin.data = Object(TRUE, <<ServerEntry(JInt(7)), OtherEntry>>)
    /\ rout.lines = <<Line("NoPortData", None, 0, None, <<"8">>)>>

\* C13: the block of an online entry with n > 0 players has, after the roster
\* header, min(n, 10) numbered player lines in list order, followed by a summary
\* line carrying n - 10 exactly when n > 10; an online entry with no players
\* has the no-players line; an entry that is not online has no roster line
C13_RosterTruncation ==
    Returned =>
        \A k \in 1..Len(rout.lines) :
            rout.lines[k].kind = "Block" =>
                LET server == rin.data.Servers[rout.lines[k].n]
                    players == server.PlayersList
                    n == Len(players)
                    roster == rout.lines[k].roster
                    listed == IF n < RosterLimit THEN n ELSE RosterLimit
                IN IF ~server.Online THEN roster = <<>>
                   ELSE IF n = 0 THEN roster = <<RosterLine("NoPlayers", 0, NoField)>>
                   ELSE /\ roster[1].kind = "Header"
                        /\ \A j \in 1..listed :
                              /\ roster[j + 1].kind = "Player"
                              /\ roster[j + 1].n = j
                              /\ roster[j + 1].nickname = Field(players[j].nickname)
                        /\ IF n > RosterLimit
                           THEN /\ Len(roster) = listed + 2
                                /\ roster[listed + 2].kind = "More"
                                /\ roster[listed + 2].n = n - RosterLimit
                           ELSE Len(roster) = listed + 1

\* an online entry with eleven players was rendered with ten player lines and
\* the summary line for one more
C13_Witness ==
    /\ Returned
    /\ Len(rout.lines) = 1
    /\ rout.lines[1].kind = "Block"
    /\ rin.data.Servers[1].Online
    /\ Len(rin.data.Servers[1].PlayersList) = RosterLimit + 1
    /\ Len(rout.lines[1].roster) = RosterLimit + 2
    /\ rout.lines[1].roster[RosterLimit + 2] = RosterLine("More", 1, NoField)

\* the lines the loop writes for a request that failed in transport
TransportLines ==
    {Line(kind, rin.server_key, status, None, None) :
        kind \in {"Timeout", "HttpError", "FormatError", "Exception"},
        status \in {0, 500}}

\* C14: an answer whose Success is false or missing gives exactly one line, the
\* request-level failure line, which is none of the transport-error lines, and
\* no entry of Servers is parsed or rendered, whatever the entries are
C14_ApiFailure ==
    (rout.done /\ ~rin.data.Success) =>
        /\ ~rout.raised
        /\ rout.lines = <<Line("ApiFailed", rin.server_key, 0, None, None)>>
        /\ rout.lines[1] \notin TransportLines

\* an unsuccessful answer whose only entry could not have been rendered
C14_Witness ==
    /\ rout.done
    /\ rin.data = Object(FALSE, <<BrokenRoster>>)
    /\ rin.port = None
    /\ rout.lines = <<Line("ApiFailed", <<"k">>, 0, None, None)>>

\* the store in which only group g has its file
Alone(fs, g) == [h \in Groups |-> IF h = g THEN fs[h] ELSE NoFile]

\* C15: a management command for group g leaves the file of every other group
\* as it was, and its reply and the new file of g are what they would be if no
\* other group had a file; what a query command for a group reads and replies
\* at its start is the same whatever the other groups hold, and it changes no file
C15_NoCrossGroup ==
    [][LET c == last'.cmd
           g == c.group_openid
           r == BindHandle(Alone(files, g), c.params, c.user_id, g)
       IN /\ \A h \in Groups \ {g} : files'[h] = files[h]
          /\ last'.reply = r.reply
          /\ files'[g] = r.fs[g]
          /\ \A h \in Groups :
                /\ QueryStart(files', h) = QueryStart(Alone(files', h), h)
                /\ QueryFiles(files', h) = files']_vars

\* the second group removed a binding whose identity the first group also
\* holds, and the first group still holds it
C15_Witness ==
    /\ last.cmd.group_openid = "g2"
    /\ last.reply = "Removed"
    /\ CmdParts(last.cmd) = <<WordRemove, <<"k">>, <<"a">>>>
    /\ Holds(files, "g1", <<"k">>, <<"a">>)
    /\ ~Holds(files, "g2", <<"k">>, <<"a">>)

\* the (key, account id, port or None) tuples of the lines the query command
\* accepts from the file of group g, in file order
FileTuples(g) ==
    LET records == _load_servers(files, g)
    IN [i \in 1..Len(records) |->
           <<records[i][1], records[i][2],
             IF Len(records[i]) >= 3 THEN records[i][3] ELSE None>>]

\* the position of the first occurrence of x in s
FirstAt(s, x) == CHOOSE i \in 1..Len(s) : s[i] = x /\ \A j \in 1..(i - 1) : s[j] # x

\* C16: the targets a query command reads are the distinct (key, account id,
\* port or absent) tuples of the bound records, each once, in first-seen
\* order, so identical records give one target and records that differ only
\* in the port give one target each; the loop issues one request per target
C16_DedupByTuple ==
    [][/\ (qpc = "idle" /\ qpc' = "loop") =>
             LET tuples == FileTuples(qgroup') IN
             /\ \A a, b \in 1..Len(server_infos') :
                    server_infos'[a] = server_infos'[b] => a = b
             /\ {server_infos'[a] : a \in 1..Len(server_infos')}
                  = {tuples[i] : i \in 1..Len(tuples)}
             /\ \A a, b \in 1..Len(server_infos') :
                    a < b => FirstAt(tuples, server_infos'[a])
                               < FirstAt(tuples, server_infos'[b])
       /\ (qpc = "loop" /\ qpc' = "done") =>
             requests' = [r \in 1..Len(server_infos') |-> r]]_vars

\* a file of four records, two of them identical and a third of the same
\* identity with another port, was queried with three requests
C16_Witness ==
    /\ LoopDone
    /\ server_infos = <<<<<<"k">>, <<"a">>, <<"7">>>>, <<<<"j">>, <<"a">>, None>>,
                        <<<<"k">>, <<"a">>, <<"8">>>>>>
    /\ requests = <<1, 2, 3>>
    /\ Len(responses) = 3

\* C17: a successful Add leaves every record of the group where it was, with
\* the fields it had, and puts exactly one new record after them: the key and
\* account id of the command, and the port only if the command gave one
C17_AddAppends ==
    [][last'.reply = "Added" =>
          LET parts == CmdParts(last'.cmd)
              g == last'.cmd.group_openid
              record == IF Len(parts) >= 4 THEN <<parts[2], parts[3], parts[4]>>
                        ELSE <<parts[2], parts[3]>>
          IN _load_servers(files', g) = Append(_load_servers(files, g), record)]_vars

\* an Add with a port was the third successful Add of the group, after a record
\* without a port
C17_Witness ==
    /\ last.reply = "Added"
    /\ Len(CmdParts(last.cmd)) = 4
    /\ Len(_load_servers(files, "g1")) = 3
    /\ Len(_load_servers(files, "g1")[1]) = 2
    /\ _load_servers(files, "g1")[3]
         = <<CmdParts(last.cmd)[2], CmdParts(last.cmd)[3], CmdParts(last.cmd)[4]>>
    /\ last.cmd.group_openid = "g1"

\* C19: a management command of a user who is no administrator gets the denial
\* text and changes no file, whatever its subcommand and arguments are and
\* whatever the store holds: the test comes before the store is touched
C19_NonAdminDenied ==
    [][/\ last'.cmd.user_id # "admin" => (last'.reply = "Denied" /\ files' = files)
       /\ \A ps \in ParamsFull, g \in Groups :
             BindHandle(files, ps, "guest", g) = [reply |-> "Denied", fs |-> files]]_vars

\* a user who is no administrator tried to add a binding the group does not
\* hold, on a store that has records
C19_Witness ==
    /\ last.cmd.user_id = "guest"
    /\ last.reply = "Denied"
    /\ CmdParts(last.cmd) = <<WordAdd, <<"k">>, <<"a">>, <<"7">>>>
    /\ ~Holds(files, "g1", <<"k">>, <<"a">>)
    /\ Len(_load_servers(files, "g1")) = 2

\* both commands in flight have returned
BothDone == conc.task[1].pc = "done" /\ conc.task[2].pc = "done"

\* the files and replies when command a is handled wholly before command b
SerialOutcome(a, b) ==
    LET ca == conc.task[a].cmd
        cb == conc.task[b].cmd
        ra == BindHandle(conc.store, ca.params, ca.user_id, ca.group_openid)
        rb == BindHandle(ra.fs, cb.params, cb.user_id, cb.group_openid)
    IN [fs |-> rb.fs, replies |-> [i \in {a, b} |-> IF i = a THEN ra.reply ELSE rb.reply]]

\* C18: of two management commands for one group that are in flight together,
\* neither is ever suspended between loading the records and writing them;
\* when both have returned, the files and both replies are those of handling
\* the two one after the other in one of the two orders, so no identity is
\* stored twice and the effect of no completed Add or Remove is lost
C18_Serial ==
    /\ \A i \in {1, 2} : conc.task[i].pc \in {"received", "done"}
    /\ \A g \in Groups :
          \A i, j \in 1..Len(_load_servers(files, g)) :
              (/\ _load_servers(files, g)[i][1] = _load_servers(files, g)[j][1]
               /\ _load_servers(files, g)[i][2] = _load_servers(files, g)[j][2]) => i = j
    /\ BothDone =>
          \E o \in {<<1, 2>>, <<2, 1>>} :
              /\ files = SerialOutcome(o[1], o[2]).fs
              /\ \A i \in {1, 2} :
                    conc.task[i].reply = SerialOutcome(o[1], o[2]).replies[i]

\* two Adds of one identity were in flight on an unbound group: one was
\* answered "added", the other "already exists", and one record is stored
C18_Witness ==
    /\ BothDone
    /\ ~conc.store["g1"].exists
    /\ conc.task[1].cmd # conc.task[2].cmd
    /\ conc.task[1].reply = "AlreadyExists"
    /\ conc.task[2].reply = "Added"
    /\ Len(_load_servers(files, "g1")) = 1
====
